---- MODULE Spec2Model ----
(***************************************************************************)
(* Scenario enumeration and tie-break resolution engine of                 *)
(* TiebreakerScenarios: computeStandings, the tie-break rules and the      *)
(* per-conference resolver loops, simulateConference and                   *)
(* analyzeTeamRequirements.                                                *)
(*                                                                         *)
(* Team names are modelled as the integers 1..NumTeams; the integer order  *)
(* is the order String.localeCompare gives the names.  A win fraction is a *)
(* pair <<numerator, denominator>> with a positive denominator, compared   *)
(* by cross-multiplication, which agrees with the IEEE comparison of the   *)
(* quotients for the small counts that occur here.                         *)
(***************************************************************************)
EXTENDS Integers, Sequences, FiniteSets, TLC

VARIABLES
  conf,         \* ConferenceData handed to simulateConference
  pc,           \* position of the enumerator / analyzer run
  mask,         \* loop variable of simulateConference's for-loop
  scenarios,    \* the Scenario[] built so far / returned
  handed,       \* groups handed to applyTieBreakers in the last iteration
  requirements, \* result of analyzeTeamRequirements (team 0: none yet)
  rConf,        \* resolver run: confName argument
  rTeams,       \* resolver run: teams argument (the tied group)
  rGames,       \* resolver run: games argument
  rStandings,   \* resolver run: standings argument
  rState,       \* resolver run: remaining/top/bottom/applied of the loop
  rIters,       \* resolver run: number of loop iterations started
  rResult       \* resolver run: returned {order, applied}, once returned

vars == <<conf, pc, mask, scenarios, handed, requirements,
          rConf, rTeams, rGames, rStandings, rState, rIters, rResult>>

simVars == <<conf, pc, mask, scenarios, handed, requirements>>
resVars == <<rConf, rTeams, rGames, rStandings, rState, rIters, rResult>>

----------------------------------------------------------------------------
(* Bounds of the model *)

NumTeams == 3
MaxGames == 3
MaxUnplayed == 2
ResNumTeams == 3
ResMaxGames == 4
MaxMeetings == 2
FourTeams == 4
FourMaxGames == 5

(* Program constants *)

MAX_SIMULATION == 30
MaxCombinationSize == 6
EpsDen == 1000000

----------------------------------------------------------------------------
(* Generic helpers for arrays *)

Includes(s, x) == \E i \in DOMAIN s : s[i] = x

Range(s) == {s[i] : i \in DOMAIN s}

Min2(a, b) == IF a < b THEN a ELSE b

Max2(a, b) == IF a > b THEN a ELSE b

\* Array.prototype.findIndex, 1-based; 0 when nothing matches
FirstIndex(s, P(_)) ==
  IF \E i \in DOMAIN s : P(s[i])
  THEN CHOOSE i \in DOMAIN s : P(s[i]) /\ \A j \in 1..(i - 1) : ~P(s[j])
  ELSE 0

\* arr.filter((t) => t !== x)
FilterOut(s, x) == SelectSeq(s, LAMBDA t : t # x)

\* applied.add(code) on a Set, kept in insertion order
SetAdd(s, x) == IF Includes(s, x) THEN s ELSE Append(s, x)

RECURSIVE SetAddAll(_, _)
SetAddAll(s, xs) ==
  IF xs = <<>> THEN s ELSE SetAddAll(SetAdd(s, Head(xs)), Tail(xs))

\* Fractions
Pct(w, g) == IF g > 0 THEN <<w, g>> ELSE <<0, 1>>
MinusOne == <<-1, 1>>
PctGt(p, q) == p[1] * q[2] > q[1] * p[2]
PctEq(p, q) == p[1] * q[2] = q[1] * p[2]
\* pct > maxPct + 0.000001
PctGtEps(p, q) == p[1] * q[2] * EpsDen > q[1] * p[2] * EpsDen + p[2] * q[2]
\* Math.abs(pct - maxPct) <= 0.000001
PctNearEps(p, q) ==
  LET d == p[1] * q[2] - q[1] * p[2]
      a == IF d < 0 THEN 0 - d ELSE d
  IN a * EpsDen <= p[2] * q[2]

----------------------------------------------------------------------------
(* Standings Calculator *)

Count(games, P(_)) == Cardinality({i \in DOMAIN games : P(games[i])})

confWinsOf(team, games) ==
  Count(games, LAMBDA g : g.played /\ g.winner = team)

confLossesOf(team, games) ==
  Count(games, LAMBDA g : g.played /\ g.loser = team)

\* comparator of rows.sort: TRUE when a sorts strictly before b
StandingsBefore(a, b) ==
  LET aPct == <<a.confWins, Max2(1, a.confWins + a.confLosses)>>
      bPct == <<b.confWins, Max2(1, b.confWins + b.confLosses)>>
  IN IF ~PctEq(aPct, bPct) THEN PctGt(aPct, bPct) ELSE a.team < b.team

\* standings built from the played games only, without the rows of conf.teams
computeStandings_playedOnly(c) ==
  LET names == {c.games[i].winner : i \in {j \in DOMAIN c.games : c.games[j].played}} \cup
               {c.games[i].loser : i \in {j \in DOMAIN c.games : c.games[j].played}}
      rows == {[team |-> t,
                confWins |-> confWinsOf(t, c.games),
                confLosses |-> confLossesOf(t, c.games)] : t \in names}
  IN [k \in 1..Cardinality(rows) |->
        CHOOSE r \in rows :
          Cardinality({q \in rows : StandingsBefore(q, r)}) = k - 1]

computeStandings(c) ==
  LET names == Range(c.teams) \cup
               {c.games[i].winner : i \in {j \in DOMAIN c.games : c.games[j].played}} \cup
               {c.games[i].loser : i \in {j \in DOMAIN c.games : c.games[j].played}}
      rows == {[team |-> t,
                confWins |-> confWinsOf(t, c.games),
                confLosses |-> confLossesOf(t, c.games)] : t \in names}
  IN [k \in 1..Cardinality(rows) |->
        CHOOSE r \in rows :
          Cardinality({q \in rows : StandingsBefore(q, r)}) = k - 1]

----------------------------------------------------------------------------
(* Tie-break rules.  A TieBreakerResult is [team, winner]; NoDecision      *)
(* stands for the null a rule returns when it cannot decide.  The          *)
(* explanation strings are presentation only and are not modelled.         *)

NoDecision == [team |-> 0, winner |-> FALSE]

Decided(r) == r.team # 0

RECURSIVE SetSum(_, _)
SetSum(S, f) ==
  IF S = {} THEN 0
  ELSE LET x == CHOOSE y \in S : TRUE IN f[x] + SetSum(S \ {x}, f)

\* head-to-head that names the loser of the game found
headToHead_returnsLoser(teams, games) ==
  IF Len(teams) # 2 THEN NoDecision
  ELSE LET i == FirstIndex(games, LAMBDA g : g.played /\ Includes(teams, g.winner)
                                              /\ Includes(teams, g.loser))
       IN IF i = 0 THEN NoDecision
          ELSE [team |-> games[i].loser, winner |-> TRUE]

headToHead(teams, games) ==
  IF Len(teams) # 2 THEN NoDecision
  ELSE LET i == FirstIndex(games, LAMBDA g : g.played /\ Includes(teams, g.winner)
                                              /\ Includes(teams, g.loser))
       IN IF i = 0 THEN NoDecision
          ELSE [team |-> games[i].winner, winner |-> TRUE]

\* games.filter(g => g.played && teams.includes(g.winner) && teams.includes(g.loser))
roundRobinGames(teams, games) ==
  SelectSeq(games, LAMBDA g : g.played /\ Includes(teams, g.winner)
                              /\ Includes(teams, g.loser))

\* the winCounts.forEach scan of "Case 1": [maxWins, winningTeam, isTied]
roundRobinScan(teams, rr) ==
  LET f[i \in 0..Len(teams)] ==
        IF i = 0 THEN [maxWins |-> -1, winningTeam |-> 0, isTied |-> TRUE]
        ELSE LET p == f[i - 1]
                 w == Count(rr, LAMBDA g : g.winner = teams[i])
             IN IF w > p.maxWins
                THEN [maxWins |-> w, winningTeam |-> teams[i], isTied |-> FALSE]
                ELSE IF w = p.maxWins THEN [p EXCEPT !.isTied = TRUE] ELSE p
  IN f[Len(teams)]

roundRobin_twoScenarios(teams, games) ==
  IF Len(teams) < 3 THEN NoDecision
  ELSE
    LET rr == roundRobinGames(teams, games)
        n == Len(teams)
        expectedGames == (n * (n - 1)) \div 2
        scan == roundRobinScan(teams, rr)
        beatenAll == FirstIndex(teams,
                       LAMBDA t : Count(rr, LAMBDA g : g.winner = t) = n - 1)
    IN IF Len(rr) = expectedGames /\ ~scan.isTied /\ scan.winningTeam # 0
       THEN [team |-> scan.winningTeam, winner |-> TRUE]
       ELSE IF beatenAll # 0
       THEN [team |-> teams[beatenAll], winner |-> TRUE]
       ELSE NoDecision

roundRobin_threeScenarios(teams, games) ==
  IF Len(teams) < 3 THEN NoDecision
  ELSE
    LET rr == roundRobinGames(teams, games)
        n == Len(teams)
        expectedGames == (n * (n - 1)) \div 2
        scan == roundRobinScan(teams, rr)
        beatenAll == FirstIndex(teams,
                       LAMBDA t : Count(rr, LAMBDA g : g.winner = t) = n - 1)
        lostToAll == FirstIndex(teams,
                       LAMBDA t : Count(rr, LAMBDA g : g.loser = t) = n - 1)
    IN IF Len(rr) = expectedGames /\ ~scan.isTied /\ scan.winningTeam # 0
       THEN [team |-> scan.winningTeam, winner |-> TRUE]
       ELSE IF beatenAll # 0
       THEN [team |-> teams[beatenAll], winner |-> TRUE]
       ELSE IF lostToAll # 0
       THEN [team |-> teams[lostToAll], winner |-> FALSE]
       ELSE NoDecision

\* opponents outside the tied group that `team` has played
outsideOpponents(team, teams, games) ==
  {games[i].loser : i \in {j \in DOMAIN games :
       games[j].played /\ games[j].winner = team /\ ~Includes(teams, games[j].loser)}}
  \cup
  {games[i].winner : i \in {j \in DOMAIN games :
       games[j].played /\ games[j].loser = team /\ ~Includes(teams, games[j].winner)}}

commonOpponentsOf(teams, games) ==
  {opp \in outsideOpponents(teams[1], teams, games) :
     \A k \in DOMAIN teams : opp \in outsideOpponents(teams[k], teams, games)}

winPctCommonOpponents(teams, games) ==
  LET commonOpponents == commonOpponentsOf(teams, games)
      wins(t) == Count(games, LAMBDA g : g.played /\ g.winner = t
                                         /\ g.loser \in commonOpponents)
      losses(t) == Count(games, LAMBDA g : g.played /\ g.loser = t
                                           /\ ~(Includes(teams, g.winner)
                                                /\ g.loser \in commonOpponents)
                                           /\ g.winner \in commonOpponents)
      f[i \in 0..Len(teams)] ==
        IF i = 0 THEN [maxPct |-> MinusOne, winningTeam |-> 0, isTied |-> TRUE]
        ELSE LET p == f[i - 1]
                 total == wins(teams[i]) + losses(teams[i])
                 pct == <<wins(teams[i]), total>>
             IN IF total = 0 THEN p
                ELSE IF PctGt(pct, p.maxPct)
                THEN [maxPct |-> pct, winningTeam |-> teams[i], isTied |-> FALSE]
                ELSE IF PctEq(pct, p.maxPct) THEN [p EXCEPT !.isTied = TRUE]
                ELSE p
      scan == f[Len(teams)]
  IN IF commonOpponents = {} THEN NoDecision
     ELSE IF ~scan.isTied /\ scan.winningTeam # 0 /\ scan.maxPct[1] >= 0
     THEN [team |-> scan.winningTeam, winner |-> TRUE]
     ELSE NoDecision

\* the countAtMax scan shared by winOrderOfFinish and combinedOpponentWinPct
countAtMaxScan(teams, pctOf) ==
  LET f[i \in 0..Len(teams)] ==
        IF i = 0 THEN [maxPct |-> MinusOne, winningTeam |-> 0, countAtMax |-> 0]
        ELSE LET p == f[i - 1]
                 pct == pctOf[teams[i]]
             IN IF PctGtEps(pct, p.maxPct)
                THEN [maxPct |-> pct, winningTeam |-> teams[i], countAtMax |-> 1]
                ELSE IF PctNearEps(pct, p.maxPct)
                THEN [p EXCEPT !.countAtMax = p.countAtMax + 1]
                ELSE p
  IN f[Len(teams)]

\* standings.find((s) => teams.includes(s.team))?.confWins ?? 0
tiedTeamWinsOf(teams, standings) ==
  LET i == FirstIndex(standings, LAMBDA s : Includes(teams, s.team))
  IN IF i = 0 THEN 0 ELSE standings[i].confWins

winOrderOfFinish(teams, games, standings) ==
  LET tiedTeamWins == tiedTeamWinsOf(teams, standings)
      L == Len(standings)
      \* oppRecords of `team` restricted to one opponent
      recWins(team, opp) ==
        Count(games, LAMBDA g : g.played /\ g.winner = team /\ g.loser = opp
                                /\ ~Includes(teams, g.loser))
      recGames(team, opp) ==
        recWins(team, opp) +
        Count(games, LAMBDA g : g.played /\ g.loser = team /\ g.winner = opp
                                /\ ~Includes(teams, g.winner))
      \* last index of the run of equal confWins that starts at i
      runEnd(i) ==
        CHOOSE j \in i..L :
          /\ \A k \in i..j : standings[k].confWins = standings[i].confWins
          /\ (j = L \/ standings[j + 1].confWins # standings[i].confWins)
      walk[i \in 1..(L + 1)] ==
        IF i > L THEN NoDecision
        ELSE IF standings[i].confWins >= tiedTeamWins THEN walk[i + 1]
        ELSE
          LET j == runEnd(i)
              opponentGroup == {standings[k].team :
                                  k \in {m \in i..j : ~Includes(teams, standings[m].team)}}
              allTeamsPlayedGroup ==
                \A t \in Range(teams) :
                  \E opp \in opponentGroup : recGames(t, opp) > 0
              pctOf == [t \in Range(teams) |->
                          Pct(SetSum(opponentGroup, [o \in opponentGroup |-> recWins(t, o)]),
                              SetSum(opponentGroup, [o \in opponentGroup |-> recGames(t, o)]))]
              scan == countAtMaxScan(teams, pctOf)
          IN IF opponentGroup = {} THEN walk[j + 1]
             ELSE IF ~allTeamsPlayedGroup THEN walk[j + 1]
             ELSE IF scan.countAtMax = 1 /\ scan.winningTeam # 0
             THEN [team |-> scan.winningTeam, winner |-> TRUE]
             ELSE walk[j + 1]
  IN walk[1]

\* the rule returning the first team at the maximum also when others share it
combinedOpponentWinPct_firstAtMax(teams, games) ==
  IF Len(teams) < 2 THEN NoDecision
  ELSE
    LET opponents(team) ==
          {games[i].loser : i \in {j \in DOMAIN games :
               games[j].played /\ games[j].winner = team}}
          \cup
          {games[i].winner : i \in {j \in DOMAIN games :
               games[j].played /\ games[j].loser = team /\ games[j].winner # team}}
        oppGames(o) == Count(games, LAMBDA g : g.played /\ (g.winner = o \/ g.loser = o))
        oppWins(o) == Count(games, LAMBDA g : g.played /\ g.winner = o)
        pctOf == [t \in Range(teams) |->
                    Pct(SetSum(opponents(t), [o \in opponents(t) |-> oppWins(o)]),
                        SetSum(opponents(t), [o \in opponents(t) |-> oppGames(o)]))]
        scan == countAtMaxScan(teams, pctOf)
    IN IF scan.countAtMax >= 1 /\ scan.winningTeam # 0
       THEN [team |-> scan.winningTeam, winner |-> TRUE]
       ELSE NoDecision

combinedOpponentWinPct(teams, games) ==
  IF Len(teams) < 2 THEN NoDecision
  ELSE
    LET opponents(team) ==
          {games[i].loser : i \in {j \in DOMAIN games :
               games[j].played /\ games[j].winner = team}}
          \cup
          {games[i].winner : i \in {j \in DOMAIN games :
               games[j].played /\ games[j].loser = team /\ games[j].winner # team}}
        oppGames(o) == Count(games, LAMBDA g : g.played /\ (g.winner = o \/ g.loser = o))
        oppWins(o) == Count(games, LAMBDA g : g.played /\ g.winner = o)
        pctOf == [t \in Range(teams) |->
                    Pct(SetSum(opponents(t), [o \in opponents(t) |-> oppWins(o)]),
                        SetSum(opponents(t), [o \in opponents(t) |-> oppGames(o)]))]
        scan == countAtMaxScan(teams, pctOf)
    IN IF scan.countAtMax = 1 /\ scan.winningTeam # 0
       THEN [team |-> scan.winningTeam, winner |-> TRUE]
       ELSE NoDecision

----------------------------------------------------------------------------
(* Tie-Break Resolver.  Each tiebreakers_<conf> operator is the body of    *)
(* one iteration of that conference's while-loop up to the point where a   *)
(* rule decides: the code recorded, the team and whether it goes to the    *)
(* top list.  Code "G" with team 0 means that no rule decided.             *)

NoRule == [code |-> "G", team |-> 0, toTop |-> TRUE]

\* the value of a one-element set: a result the code binds to a const once
The(S) == CHOOSE v \in S : TRUE

\* if (result) { applied.add(code); (top | bottom).push(result.team); ... }
\* else the rest of the iteration; forceTop: the branch pushes to top only
decide(code, result, forceTop, otherwise) ==
  The({IF Decided(r)
       THEN [code |-> code, team |-> r.team, toTop |-> (forceTop \/ r.winner)]
       ELSE otherwise : r \in {result}})

tiebreakers_aac(remaining, games) ==
  decide("A", IF Len(remaining) = 2 THEN headToHead(remaining, games)
              ELSE roundRobin_twoScenarios(remaining, games), TRUE,
    decide("B", winPctCommonOpponents(remaining, games), FALSE,
      decide("C", combinedOpponentWinPct(remaining, games), FALSE, NoRule)))

tiebreakers_acc(remaining, games, standings) ==
  decide("A", IF Len(remaining) = 2 THEN headToHead(remaining, games)
              ELSE roundRobin_threeScenarios(remaining, games), Len(remaining) = 2,
    decide("B", winPctCommonOpponents(remaining, games), FALSE,
      decide("C", winOrderOfFinish(remaining, games, standings), FALSE,
        decide("D", combinedOpponentWinPct(remaining, games), FALSE, NoRule))))

tiebreakers_big10(remaining, games, standings) ==
  decide("A", IF Len(remaining) = 2 THEN headToHead(remaining, games)
              ELSE roundRobin_twoScenarios(remaining, games), TRUE,
    decide("B", winPctCommonOpponents(remaining, games), FALSE,
      decide("C", winOrderOfFinish(remaining, games, standings), FALSE,
        decide("D", combinedOpponentWinPct(remaining, games), FALSE, NoRule))))

tiebreakers_big12(remaining, games, standings) ==
  decide("A", IF Len(remaining) = 2 THEN headToHead(remaining, games)
              ELSE roundRobin_twoScenarios(remaining, games), TRUE,
    decide("B", winPctCommonOpponents(remaining, games), FALSE,
      decide("C", winOrderOfFinish(remaining, games, standings), FALSE,
        decide("D", combinedOpponentWinPct(remaining, games), FALSE, NoRule))))

\* the SEC chain with the order-of-finish rule tried before common opponents
tiebreakers_sec_orderOfFinishFirst(remaining, games, standings) ==
  decide("A", IF Len(remaining) = 2 THEN headToHead(remaining, games)
              ELSE roundRobin_threeScenarios(remaining, games), Len(remaining) = 2,
    decide("C", winOrderOfFinish(remaining, games, standings), FALSE,
      decide("B", winPctCommonOpponents(remaining, games), FALSE,
        decide("D", combinedOpponentWinPct(remaining, games), FALSE, NoRule))))

tiebreakers_sec(remaining, games, standings) ==
  decide("A", IF Len(remaining) = 2 THEN headToHead(remaining, games)
              ELSE roundRobin_threeScenarios(remaining, games), Len(remaining) = 2,
    decide("B", winPctCommonOpponents(remaining, games), FALSE,
      decide("C", winOrderOfFinish(remaining, games, standings), FALSE,
        decide("D", combinedOpponentWinPct(remaining, games), FALSE, NoRule))))

tiebreakers_generic(remaining, games, standings) ==
  decide("A", IF Len(remaining) = 2 THEN headToHead(remaining, games)
              ELSE NoDecision, TRUE,
    decide("B", winPctCommonOpponents(remaining, games), FALSE,
      decide("C", winOrderOfFinish(remaining, games, standings), FALSE,
        decide("D", combinedOpponentWinPct(remaining, games), FALSE, NoRule))))

\* conference keys of conferenceRawMap
ConfNames == {"AAC", "ACC", "Big10", "Big12", "MW", "SBC", "SEC"}

\* String.prototype.toLowerCase on the conference keys
toLowerCase(name) ==
  CASE name = "AAC" -> "aac"
    [] name = "ACC" -> "acc"
    [] name = "Big10" -> "big10"
    [] name = "Big12" -> "big12"
    [] name = "MW" -> "mw"
    [] name = "SBC" -> "sbc"
    [] name = "SEC" -> "sec"
    [] OTHER -> name

\* the switch of applyTieBreakers, giving the decision of one iteration
chainDecision(confName, remaining, games, standings) ==
  LET key == toLowerCase(confName)
  IN CASE key = "aac" -> tiebreakers_aac(remaining, games)
       [] key = "acc" -> tiebreakers_acc(remaining, games, standings)
       [] key = "big10" -> tiebreakers_big10(remaining, games, standings)
       [] key = "big12" -> tiebreakers_big12(remaining, games, standings)
       [] key = "sec" -> tiebreakers_sec(remaining, games, standings)
       [] OTHER -> tiebreakers_generic(remaining, games, standings)

\* const top = [], bottom = [], applied = new Set(); let remaining = teams.slice()
loopStart(teams) ==
  [remaining |-> teams, top |-> <<>>, bottom |-> <<>>, applied |-> <<>>]

\* the decision step with the filter inverted: only the placed team remains
applyDecision_keepsPlaced(st, d) ==
  [remaining |-> SelectSeq(st.remaining, LAMBDA t : t = d.team),
   top |-> IF d.toTop THEN Append(st.top, d.team) ELSE st.top,
   bottom |-> IF d.toTop THEN st.bottom ELSE Append(st.bottom, d.team),
   applied |-> SetAdd(st.applied, d.code)]

\* applied.add(code); top/bottom.push(team); remaining = remaining.filter(...)
applyDecision(st, d) ==
  [remaining |-> FilterOut(st.remaining, d.team),
   top |-> IF d.toTop THEN Append(st.top, d.team) ELSE st.top,
   bottom |-> IF d.toTop THEN st.bottom ELSE Append(st.bottom, d.team),
   applied |-> SetAdd(st.applied, d.code)]

\* the arrangements of the elements of a duplicate-free array
permutationsOf(s) ==
  {p \in [DOMAIN s -> Range(s)] : \A i, j \in DOMAIN s : i # j => p[i] # p[j]}

Swap(s, i, j) == [s EXCEPT ![i] = s[j], ![j] = s[i]]

\* the shuffle with j = floor(random * i): an element never stays in place
RECURSIVE fisherYates_neverInPlace(_, _)
fisherYates_neverInPlace(s, i) ==
  IF i <= 1 THEN {s}
  ELSE UNION {fisherYates_neverInPlace(Swap(s, i, j), i - 1) : j \in 1..(i - 1)}

\* Fisher-Yates: for i = length-1 down to 1, j = floor(random * (i + 1)), swap
RECURSIVE fisherYates(_, _)
fisherYates(s, i) ==
  IF i <= 1 THEN {s}
  ELSE UNION {fisherYates(Swap(s, i, j), i - 1) : j \in 1..i}

\* the "no rule applied" branch: applied.add("G"); shuffle; top.push(...remaining)
randomFallback(st) ==
  {[remaining |-> <<>>,
    top |-> st.top \o p,
    bottom |-> st.bottom,
    applied |-> SetAdd(st.applied, "G")] : p \in fisherYates(st.remaining, Len(st.remaining))}

\* one iteration of while (remaining.length > 1): the possible next loop states
loopIteration(confName, st, games, standings) ==
  UNION {IF d.team # 0 THEN {applyDecision(st, d)} ELSE randomFallback(st) :
           d \in {chainDecision(confName, st.remaining, games, standings)}}

\* the return without the push of the last remaining team
loopReturn_dropsLast(st) ==
  [order |-> st.top \o st.bottom, applied |-> st.applied]

\* if (remaining.length === 1) top.push(remaining[0]); return {order, applied}
loopReturn(st) ==
  LET top == IF Len(st.remaining) = 1 THEN Append(st.top, st.remaining[1]) ELSE st.top
  IN [order |-> top \o st.bottom, applied |-> st.applied]

RECURSIVE resolverLoop(_, _, _, _)
resolverLoop(confName, st, games, standings) ==
  IF Len(st.remaining) > 1
  THEN UNION {resolverLoop(confName, st2, games, standings) :
                st2 \in loopIteration(confName, st, games, standings)}
  ELSE {loopReturn(st)}

\* the set of results applyTieBreakers can return (one per fallback outcome)
applyTieBreakers(confName, teams, games, standings) ==
  resolverLoop(confName, loopStart(teams), games, standings)

----------------------------------------------------------------------------
(* Scenario Enumerator *)

getUnplayedGames(c) == SelectSeq(c.games, LAMBDA g : ~g.played)

RECURSIVE Pow2(_)
Pow2(k) == IF k = 0 THEN 1 ELSE 2 * Pow2(k - 1)

\* the bit test with the shift off by one
maskBit_shiftedByOne(m, i) == (m \div Pow2(i + 1)) % 2 = 1

\* ((mask >> i) & 1) === 1, i counted from 0
maskBit(m, i) == (m \div Pow2(i)) % 2 = 1

\* the assignment with the two slots exchanged
setResult_swapped(g, bit) ==
  [g EXCEPT !.played = TRUE,
            !.winner = IF bit THEN g.loser ELSE g.winner,
            !.loser = IF bit THEN g.winner ELSE g.loser]

\* gamesClone[idx] = {...g, played: true, winner: winnerTeam, loser: loserTeam}
setResult(g, bit) ==
  LET winnerTeam == IF bit THEN g.winner ELSE g.loser
      loserTeam == IF bit THEN g.loser ELSE g.winner
  IN [g EXCEPT !.played = TRUE, !.winner = winnerTeam, !.loser = loserTeam]

\* the inner for-loop over the unplayed games: gamesClone after games 0..k-1
RECURSIVE cloneWithResults(_, _, _, _)
cloneWithResults(games, unplayed, m, k) ==
  IF k = 0 THEN games
  ELSE
    LET gamesClone == cloneWithResults(games, unplayed, m, k - 1)
        g == unplayed[k]
        bit == maskBit(m, k - 1)
        idx == FirstIndex(gamesClone, LAMBDA gc : gc.id = g.id)
    IN IF idx >= 1
       THEN [gamesClone EXCEPT ![idx] = setResult(g, bit)]
       ELSE gamesClone

\* gameResults pushed by the inner for-loop
gameResultsOf(m, n) == [i \in 1..n |-> maskBit(m, i - 1)]

\* the slice taking the first record only
topTwoOf_firstOnly(standings) ==
  [i \in 1..Min2(1, Len(standings)) |-> standings[i].team]

\* finalStandings.slice(0, 2).map((r) => r.team)
topTwoOf(standings) == [i \in 1..Min2(2, Len(standings)) |-> standings[i].team]

\* last index of the group of adjacent equal confWins that starts at i
tiedGroupEnd(fs, i) ==
  CHOOSE j \in i..Len(fs) :
    /\ \A k \in i..j : fs[k].confWins = fs[i].confWins
    /\ (j = Len(fs) \/ fs[j + 1].confWins # fs[i].confWins)

\* finalStandings.find((r) => r.team === t) for each t of order
recordsOf(order, fs) ==
  LET found == SelectSeq(order, LAMBDA t : \E k \in DOMAIN fs : fs[k].team = t)
  IN [x \in DOMAIN found |-> fs[FirstIndex(fs, LAMBDA r : r.team = found[x])]]

\* the while-loop that detects tied groups and resolves them, from index i on:
\* the possible [resolved, appliedRules, groups] (groups: what was handed to
\* applyTieBreakers, in call order)
RECURSIVE resolveTies(_, _, _, _)
resolveTies(confName, games, fs, i) ==
  IF i > Len(fs) THEN {[resolved |-> <<>>, appliedRules |-> <<>>, groups |-> <<>>]}
  ELSE
    UNION {
      UNION {
        IF Len(tiedGroup) > 1
        THEN {[resolved |-> recordsOf(r.order, fs) \o t.resolved,
               appliedRules |-> r.applied \o t.appliedRules,
               groups |-> <<tiedGroup>> \o t.groups] :
                 r \in applyTieBreakers(confName, tiedGroup, games, fs),
                 t \in resolveTies(confName, games, fs, j + 1)}
        ELSE {[resolved |-> <<fs[i]>> \o t.resolved,
               appliedRules |-> t.appliedRules,
               groups |-> t.groups] : t \in resolveTies(confName, games, fs, j + 1)} :
          tiedGroup \in {[k \in 1..(j - i + 1) |-> fs[i + k - 1].team]}} :
        j \in {tiedGroupEnd(fs, i)}}

\* the body of the for-loop for one mask: the possible scenarios with the
\* groups handed to the resolver while building each
simulateMask(c, m) ==
  UNION {
    UNION {
      {[scenario |-> [gameResults |-> gameResultsOf(m, Len(getUnplayedGames(c))),
                      finalStandings |-> t.resolved,
                      topTwo |-> topTwoOf(t.resolved),
                      appliedTieRules |-> SetAddAll(<<>>, t.appliedRules)],
        groups |-> t.groups] :
          t \in resolveTies(newConf.name, newConf.games, finalStandings, 1)} :
        finalStandings \in {computeStandings(newConf)}} :
      newConf \in {[c EXCEPT !.games =
                      cloneWithResults(c.games, getUnplayedGames(c), m,
                                       Len(getUnplayedGames(c)))]}}

\* the n === 0 branch
simulateNoUnplayed(c) ==
  LET finalStandings == computeStandings(c)
  IN [gameResults |-> <<>>,
      finalStandings |-> finalStandings,
      topTwo |-> topTwoOf(finalStandings),
      appliedTieRules |-> <<>>]

----------------------------------------------------------------------------
(* Condition Analyzer.  A condition is [outcomes, covered, scenarioIndices];*)
(* `covered` is guaranteedScenarios of a SufficientCondition and           *)
(* blockedScenarios of a BlockingCondition.  Scenario indices are 0-based  *)
(* as in the source: index m is scenarios[m + 1].  Game indices are        *)
(* positions in unplayedGames, 1-based.                                    *)

RECURSIVE backtrack(_, _, _, _)
RECURSIVE backtrackFrom(_, _, _, _)
\* backtrack(start, current) of generateCombinations, as the list it appends
backtrack(start, current, n, k) ==
  IF Len(current) = k THEN <<current>>
  ELSE backtrackFrom(start, current, n, k)

backtrackFrom(i, current, n, k) ==
  IF i > n THEN <<>>
  ELSE backtrack(i + 1, Append(current, i), n, k) \o backtrackFrom(i + 1, current, n, k)

generateCombinations(n, k) == backtrack(1, <<>>, n, k)

\* indices (0-based) of the scenarios that match the outcome pattern
patternMatchesOf(allScenarios, indices, pattern) ==
  {idx \in 0..(Len(allScenarios) - 1) :
     \A i \in DOMAIN indices :
       /\ indices[i] \in DOMAIN allScenarios[idx + 1].gameResults
       /\ allScenarios[idx + 1].gameResults[indices[i]] = maskBit(pattern, i - 1)}

\* the guarantee test satisfied by a single matching scenario
isGuarantee_some(allScenarios, patternMatches, targetTeam) ==
  \E idx \in patternMatches : Includes(allScenarios[idx + 1].topTwo, targetTeam)

\* isGuarantee: non-empty and every matching scenario has the team in topTwo
isGuarantee(allScenarios, patternMatches, targetTeam) ==
  /\ patternMatches # {}
  /\ \A idx \in patternMatches : Includes(allScenarios[idx + 1].topTwo, targetTeam)

\* isBlocking: non-empty and no matching scenario has the team in topTwo
isBlocking(allScenarios, patternMatches, targetTeam) ==
  /\ patternMatches # {}
  /\ \A idx \in patternMatches : ~Includes(allScenarios[idx + 1].topTwo, targetTeam)

\* outcomesList of one (combination, outcomePattern)
outcomesListOf(unplayedGames, indices, pattern) ==
  [i \in DOMAIN indices |->
     LET game == unplayedGames[indices[i]]
     IN [game |-> game,
         winner |-> IF maskBit(pattern, i - 1) THEN game.winner ELSE game.loser,
         loser |-> IF maskBit(pattern, i - 1) THEN game.loser ELSE game.winner]]

\* the two nested loops of find(Blocking)ConditionsOfSize, in push order
conditionsOfSize(allScenarios, unplayedGames, targetTeam, size, blocking) ==
  LET indexCombinations == generateCombinations(Len(unplayedGames), size)
      numOutcomes == Pow2(size)
      candidates == [c \in 1..(Len(indexCombinations) * numOutcomes) |->
                       [indices |-> indexCombinations[((c - 1) \div numOutcomes) + 1],
                        pattern |-> (c - 1) % numOutcomes]]
      accepted ==
        SelectSeq(candidates,
          LAMBDA cd :
            LET pm == patternMatchesOf(allScenarios, cd.indices, cd.pattern)
            IN IF blocking THEN isBlocking(allScenarios, pm, targetTeam)
               ELSE isGuarantee(allScenarios, pm, targetTeam))
  IN [x \in DOMAIN accepted |->
        LET pm == patternMatchesOf(allScenarios, accepted[x].indices, accepted[x].pattern)
        IN [outcomes |-> outcomesListOf(unplayedGames, accepted[x].indices,
                                        accepted[x].pattern),
            covered |-> Cardinality(pm),
            scenarioIndices |-> pm]]

findConditionsOfSize(allScenarios, unplayedGames, targetTeam, size) ==
  conditionsOfSize(allScenarios, unplayedGames, targetTeam, size, FALSE)

findBlockingConditionsOfSize(allScenarios, unplayedGames, targetTeam, size) ==
  conditionsOfSize(allScenarios, unplayedGames, targetTeam, size, TRUE)

\* the for-loop over size = 1..maxCombinationSize
RECURSIVE conditionsUpTo(_, _, _, _, _)
conditionsUpTo(allScenarios, unplayedGames, targetTeam, size, blocking) ==
  IF size = 0 THEN <<>>
  ELSE conditionsUpTo(allScenarios, unplayedGames, targetTeam, size - 1, blocking)
       \o conditionsOfSize(allScenarios, unplayedGames, targetTeam, size, blocking)

\* Array.prototype.sort (stable) with a comparator given as "sorts before"
StableSort(s, Before(_, _)) ==
  LET rank(i) == Cardinality({j \in DOMAIN s : Before(s[j], s[i])})
                 + Cardinality({j \in 1..(i - 1) :
                                  ~Before(s[i], s[j]) /\ ~Before(s[j], s[i])})
  IN [k \in DOMAIN s |-> s[CHOOSE i \in DOMAIN s : rank(i) = k - 1]]

\* conditions.sort: fewest outcomes first, then most scenarios covered
ConditionBefore(a, b) ==
  \/ Len(a.outcomes) < Len(b.outcomes)
  \/ (Len(a.outcomes) = Len(b.outcomes) /\ a.covered > b.covered)

\* outcomes.map((o) => `${o.winner}-${o.loser}`)
outcomeKeys(c) == [i \in DOMAIN c.outcomes |-> <<c.outcomes[i].winner, c.outcomes[i].loser>>]

\* positions of the conditions kept by "Remove duplicates"
uniquePositions(conditions) ==
  {idx \in DOMAIN conditions :
     FirstIndex(conditions, LAMBDA other : outcomeKeys(other) = outcomeKeys(conditions[idx])) = idx}

\* hasSubset of "Remove conditions that are supersets of other conditions"
hasSubset(conditions, kept, a) ==
  \E b \in kept :
    /\ b # a
    /\ Len(conditions[b].outcomes) < Len(conditions[a].outcomes)
    /\ Range(outcomeKeys(conditions[b])) \subseteq Range(outcomeKeys(conditions[a]))

\* isRedundant of "Remove conditions whose scenarios are completely covered"
isRedundant(conditions, kept, a) ==
  \E b \in kept :
    /\ b # a
    /\ conditions[a].scenarioIndices \subseteq conditions[b].scenarioIndices
    /\ Cardinality(conditions[b].scenarioIndices) > Cardinality(conditions[a].scenarioIndices)

\* condition.outcomes.sort: outcomes naming the target team first (stable)
reorderOutcomes(c, targetTeam) ==
  LET hasTarget(o) == o.winner = targetTeam \/ o.loser = targetTeam
  IN [c EXCEPT !.outcomes =
        SelectSeq(c.outcomes, LAMBDA o : hasTarget(o)) \o
        SelectSeq(c.outcomes, LAMBDA o : ~hasTarget(o))]

\* the reduction that only sorts and reorders
reduceConditions_sortedOnly(found, targetTeam) ==
  LET conditions == StableSort(found, ConditionBefore)
  IN [x \in DOMAIN conditions |-> reorderOutcomes(conditions[x], targetTeam)]

\* the reduction without its superset and redundancy filters
reduceConditions_unfiltered(found, targetTeam) ==
  LET conditions == StableSort(found, ConditionBefore)
      unique == uniquePositions(conditions)
      kept == SelectSeq([i \in DOMAIN conditions |-> i], LAMBDA i : i \in unique)
  IN [x \in DOMAIN kept |-> reorderOutcomes(conditions[kept[x]], targetTeam)]

\* sort, unique, minimal, nonRedundant and reorder of find*Conditions
reduceConditions(found, targetTeam) ==
  LET conditions == StableSort(found, ConditionBefore)
      unique == uniquePositions(conditions)
      minimal == {a \in unique : ~hasSubset(conditions, unique, a)}
      nonRedundant == {a \in minimal : ~isRedundant(conditions, minimal, a)}
      kept == SelectSeq([i \in DOMAIN conditions |-> i], LAMBDA i : i \in nonRedundant)
  IN [x \in DOMAIN kept |-> reorderOutcomes(conditions[kept[x]], targetTeam)]

findSufficientConditions(allScenarios, unplayedGames, targetTeam) ==
  LET maxCombinationSize == Min2(Len(unplayedGames), MaxCombinationSize)
  IN reduceConditions(
       conditionsUpTo(allScenarios, unplayedGames, targetTeam, maxCombinationSize, FALSE),
       targetTeam)

findBlockingConditions(allScenarios, unplayedGames, targetTeam) ==
  LET maxCombinationSize == Min2(Len(unplayedGames), MaxCombinationSize)
  IN reduceConditions(
       conditionsUpTo(allScenarios, unplayedGames, targetTeam, maxCombinationSize, TRUE),
       targetTeam)

NoRequirements ==
  [team |-> 0, totalScenarios |-> 0, top2Count |-> 0,
   sufficientConditions |-> <<>>, blockingConditions |-> <<>>]

\* variant whose early return counts the success scenarios as the total
analyzeTeamRequirements_totalOfSuccess(team, allScenarios, unplayedGames) ==
  LET successScenarios == SelectSeq(allScenarios, LAMBDA sc : Includes(sc.topTwo, team))
  IN IF Len(successScenarios) = 0
     THEN [team |-> team, totalScenarios |-> Len(successScenarios), top2Count |-> 0,
           sufficientConditions |-> <<>>, blockingConditions |-> <<>>]
     ELSE [team |-> team, totalScenarios |-> Len(allScenarios),
           top2Count |-> Len(successScenarios),
           sufficientConditions |->
             findSufficientConditions(allScenarios, unplayedGames, team),
           blockingConditions |->
             findBlockingConditions(allScenarios, unplayedGames, team)]

analyzeTeamRequirements(team, allScenarios, unplayedGames) ==
  LET successScenarios == SelectSeq(allScenarios, LAMBDA sc : Includes(sc.topTwo, team))
  IN IF Len(successScenarios) = 0
     THEN [team |-> team, totalScenarios |-> Len(allScenarios), top2Count |-> 0,
           sufficientConditions |-> <<>>, blockingConditions |-> <<>>]
     ELSE [team |-> team, totalScenarios |-> Len(allScenarios),
           top2Count |-> Len(successScenarios),
           sufficientConditions |->
             findSufficientConditions(allScenarios, unplayedGames, team),
           blockingConditions |->
             findBlockingConditions(allScenarios, unplayedGames, team)]

\* for (const team of teams) results.set(team, analyzeTeamRequirements(...))
analyzeAllTeamRequirements(allScenarios, unplayedGames, teams) ==
  [team \in Range(teams) |-> analyzeTeamRequirements(team, allScenarios, unplayedGames)]

----------------------------------------------------------------------------
(* Inputs.  A conference is what parseConferenceCsv builds: one game per    *)
(* row with a unique id, two distinct participants and a played flag, and  *)
(* the sorted list of the teams that occur in the games.  The schedules    *)
(* drawn list the meetings of a pair of teams on adjacent rows.            *)

\* the pairs <<a, b>>, a < b, in lexicographic order
RECURSIVE pairList(_, _, _)
pairList(a, b, nTeams) ==
  IF a >= nTeams THEN <<>>
  ELSE IF b > nTeams THEN pairList(a + 1, a + 2, nTeams)
  ELSE <<<<a, b>>>> \o pairList(a, b + 1, nTeams)

\* the rows of one pair: at most `most` meetings, each with either team in
\* the winner column and, if flags allows it, unplayed
meetingsOf(pair, most, flags) ==
  UNION {
    {[i \in 1..k |-> [winner |-> IF f[i].first THEN pair[1] ELSE pair[2],
                      loser |-> IF f[i].first THEN pair[2] ELSE pair[1],
                      played |-> f[i].played]] :
       f \in [1..k -> [first : BOOLEAN, played : flags]]} : k \in 0..most}

\* schedules of at most `budget` rows, the rows of a pair kept together and
\* the pairs in the order of pairs
RECURSIVE schedulesOf(_, _, _)
schedulesOf(pairs, budget, flags) ==
  IF pairs = <<>> THEN {<<>>}
  ELSE UNION {
         {m \o rest : rest \in schedulesOf(Tail(pairs), budget - Len(m), flags)} :
           m \in meetingsOf(Head(pairs), Min2(budget, MaxMeetings), flags)}

\* the Game[] of a schedule: the row index is the id
GameLists(nTeams, maxGames, flags) ==
  {[i \in DOMAIN rows |-> [id |-> i, winner |-> rows[i].winner,
                           loser |-> rows[i].loser, played |-> rows[i].played]] :
     rows \in schedulesOf(pairList(1, 2, nTeams), maxGames, flags)}

\* Array.from(teamsSet).sort()
SortedSeq(S) ==
  [k \in 1..Cardinality(S) |-> CHOOSE t \in S : Cardinality({u \in S : u < t}) = k - 1]

teamsOfGames(games) ==
  SortedSeq({games[i].winner : i \in DOMAIN games} \cup {games[i].loser : i \in DOMAIN games})

parseConferenceCsv(name, games) ==
  [name |-> name, teams |-> teamsOfGames(games), games |-> games]

SimConfNames == {"SEC", "MW"}

SimConferences ==
  {parseConferenceCsv(name, games) :
     name \in SimConfNames,
     games \in {gl \in GameLists(NumTeams, MaxGames, BOOLEAN) :
                  Len(SelectSeq(gl, LAMBDA g : ~g.played)) <= MaxUnplayed}}

\* a schedule with more unplayed games than simulateConference accepts
BigConference ==
  parseConferenceCsv("SEC",
    [i \in 1..(MAX_SIMULATION + 1) |->
       [id |-> i, winner |-> 1, loser |-> 2, played |-> FALSE]])

NoResult == [order |-> <<>>, applied |-> <<>>, returned |-> FALSE]

ResolverIdle ==
  /\ rConf = "" /\ rTeams = <<>> /\ rGames = <<>> /\ rStandings = <<>>
  /\ rState = loopStart(<<>>) /\ rIters = 0 /\ rResult = NoResult

SimIdle ==
  /\ conf = parseConferenceCsv("", <<>>) /\ pc = "idle" /\ mask = 0
  /\ scenarios = <<>> /\ handed = <<>> /\ requirements = NoRequirements

----------------------------------------------------------------------------
(* Enumerator and analyzer run: simulateConference(conf), then             *)
(* analyzeTeamRequirements(team, scenarios, getUnplayedGames(conf)).       *)

Init ==
  /\ conf \in SimConferences \cup {BigConference}
  /\ pc = "start"
  /\ mask = 0
  /\ scenarios = <<>>
  /\ handed = <<>>
  /\ requirements = NoRequirements
  /\ ResolverIdle

\* n === 0: a single scenario from the current standings
SimulateNoUnplayed ==
  /\ pc = "start"
  /\ Len(getUnplayedGames(conf)) = 0
  /\ scenarios' = <<simulateNoUnplayed(conf)>>
  /\ handed' = <<<<>>>>
  /\ pc' = "returned"
  /\ UNCHANGED <<conf, mask, requirements>>
  /\ UNCHANGED resVars

\* the limit test of simulateConference, with a variant that admits one
\* game more
overLimit_offByOne(n) == n > MAX_SIMULATION + 1

overLimit(n) == n > MAX_SIMULATION

\* n > MAX_SIMULATION: return []
SimulateRefuse ==
  /\ pc = "start"
  /\ overLimit(Len(getUnplayedGames(conf)))
  /\ scenarios' = <<>>
  /\ pc' = "returned"
  /\ UNCHANGED <<conf, mask, handed, requirements>>
  /\ UNCHANGED resVars

\* one iteration of for (mask = 0; mask < total; mask++)
SimulateMask ==
  LET n == Len(getUnplayedGames(conf))
  IN /\ pc \in {"start", "loop"}
     /\ n >= 1
     /\ ~overLimit(n)
     /\ mask < Pow2(n)
     /\ \E r \in simulateMask(conf, mask) :
          /\ scenarios' = Append(scenarios, r.scenario)
          /\ handed' = Append(handed, r.groups)
     /\ mask' = mask + 1
     /\ pc' = IF mask + 1 < Pow2(n) THEN "loop" ELSE "returned"
     /\ UNCHANGED <<conf, requirements>>
     /\ UNCHANGED resVars

\* analyzeTeamRequirements for one team of the conference
Analyze ==
  /\ pc = "returned"
  /\ \E team \in Range(conf.teams) :
       requirements' = analyzeTeamRequirements(team, scenarios, getUnplayedGames(conf))
  /\ pc' = "analyzed"
  /\ UNCHANGED <<conf, mask, scenarios, handed>>
  /\ UNCHANGED resVars

Next == SimulateNoUnplayed \/ SimulateRefuse \/ SimulateMask \/ Analyze

Spec == Init /\ [][Next]_vars

----------------------------------------------------------------------------
(* Resolver run: applyTieBreakers(rConf, rTeams, rGames, rStandings), one  *)
(* while-iteration per step.                                               *)

\* the five named chains and one key that takes the default chain
ResolverConfNames == {"AAC", "ACC", "Big10", "Big12", "SEC", "MW"}

ResolverGroups ==
  UNION {{g \in [1..k -> 1..ResNumTeams] : \A i, j \in 1..k : i # j => g[i] # g[j]} :
           k \in 2..ResNumTeams}

InitResolver ==
  /\ rConf \in ResolverConfNames
  /\ rGames \in GameLists(ResNumTeams, ResMaxGames, {TRUE})
  /\ rTeams \in ResolverGroups
  /\ rStandings = computeStandings([name |-> rConf, teams |-> SortedSeq(1..ResNumTeams),
                                    games |-> rGames])
  /\ rState = loopStart(rTeams)
  /\ rIters = 0
  /\ rResult = NoResult
  /\ SimIdle

\* an iteration in which a rule of the chain decides
ResolverRuleStep ==
  /\ ~rResult.returned
  /\ Len(rState.remaining) > 1
  /\ rIters < ResNumTeams + 1
  /\ rState' \in loopIteration(rConf, rState, rGames, rStandings)
  /\ ~Includes(rState'.applied, "G")
  /\ rIters' = rIters + 1
  /\ UNCHANGED <<rConf, rTeams, rGames, rStandings, rResult>>
  /\ UNCHANGED simVars

\* the caller's array if `remaining` were that array itself until the first
\* filter: the swaps of the shuffle would then be written to it
teamsAfterShuffle_shared(teams, before, after) ==
  IF before.remaining = teams /\ before.top = <<>> /\ before.bottom = <<>>
  THEN after.top
  ELSE teams

\* the caller's array after the shuffle: `remaining` is teams.slice(), later
\* the result of filter, so the swaps never reach the array passed in
teamsAfterShuffle(teams, before, after) == teams

\* an iteration in which no rule decides: shuffle, push all, break
ResolverFallback ==
  /\ ~rResult.returned
  /\ Len(rState.remaining) > 1
  /\ rIters < ResNumTeams + 1
  /\ rState' \in loopIteration(rConf, rState, rGames, rStandings)
  /\ Includes(rState'.applied, "G")
  /\ rIters' = rIters + 1
  /\ rTeams' = teamsAfterShuffle(rTeams, rState, rState')
  /\ UNCHANGED <<rConf, rGames, rStandings, rResult>>
  /\ UNCHANGED simVars

\* the loop is left: push the leftover team and return
ResolverReturn ==
  /\ ~rResult.returned
  /\ Len(rState.remaining) <= 1
  /\ rResult' = [order |-> loopReturn(rState).order,
                 applied |-> loopReturn(rState).applied,
                 returned |-> TRUE]
  /\ UNCHANGED <<rConf, rTeams, rGames, rStandings, rState, rIters>>
  /\ UNCHANGED simVars

NextResolver == ResolverRuleStep \/ ResolverFallback \/ ResolverReturn

SpecResolver == InitResolver /\ [][NextResolver]_vars

\* Resolver run on a group of two or more teams of a conference of FourTeams
\* teams, under the two chains that can place a team at the bottom; each
\* pair meets at most once and at most FourMaxGames games are played
FourGameLists ==
  {gl \in GameLists(FourTeams, FourMaxGames, {TRUE}) :
     \A i, j \in DOMAIN gl :
       (i # j) => {gl[i].winner, gl[i].loser} # {gl[j].winner, gl[j].loser}}

FourGroups ==
  UNION {{g \in [1..k -> 1..FourTeams] : \A i, j \in 1..k : i # j => g[i] # g[j]} :
           k \in 2..FourTeams}

InitResolverFour ==
  /\ rConf \in {"ACC", "SEC"}
  /\ rGames \in FourGameLists
  /\ rTeams \in FourGroups
  /\ rStandings = computeStandings([name |-> rConf, teams |-> SortedSeq(1..FourTeams),
                                    games |-> rGames])
  /\ rState = loopStart(rTeams)
  /\ rIters = 0
  /\ rResult = NoResult
  /\ SimIdle

SpecResolverFour == InitResolverFour /\ [][NextResolver]_vars

\* both runs side by side: a behaviour is an enumerator run or a resolver run
InitAll == Init \/ InitResolver

NextAll == Next \/ NextResolver

SpecAll == InitAll /\ [][NextAll]_vars

----------------------------------------------------------------------------
(* Properties of the resolver run *)

\* C1: the order applyTieBreakers returns contains each team of the group
\* exactly once and no other team, for every chain, whether the group was
\* decided by rules, by the random fallback or by both.
C1_OrderIsPermutation ==
  rResult.returned =>
    /\ Len(rResult.order) = Len(rTeams)
    /\ Range(rResult.order) = Range(rTeams)
    /\ \A i, j \in DOMAIN rResult.order : i # j => rResult.order[i] # rResult.order[j]

\* C1 witness: a returned order of three teams of which one was placed by a
\* rule and the others by the fallback
C1_Witness ==
  /\ rResult.returned
  /\ Len(rTeams) = 3
  /\ Includes(rResult.applied, "G")
  /\ Len(rResult.applied) = 2
  /\ toLowerCase(rConf) = "acc"

\* C2: every iteration either removes exactly one team from the remaining set
\* or fires the fallback, which empties it and ends the loop, so a group of k
\* teams takes at most k - 1 iterations.
C2_IterationBound ==
  /\ rIters <= Len(rTeams) - 1
  /\ \/ /\ Len(rState.remaining) = Len(rTeams) - rIters
        /\ Len(rState.remaining) >= 1
        /\ Len(rState.top) + Len(rState.bottom) = rIters
        /\ ~Includes(rState.applied, "G")
     \/ /\ rState.remaining = <<>>
        /\ Includes(rState.applied, "G")
        /\ rIters >= 1

\* C2 witness: a group of three resolved by rules alone in two iterations
C2_Witness ==
  /\ rResult.returned
  /\ Len(rTeams) = 3
  /\ rIters = 2
  /\ ~Includes(rResult.applied, "G")

----------------------------------------------------------------------------
(* Properties of the enumerator *)

simReturned == pc \in {"returned", "analyzed"}

numUnplayed == Len(getUnplayedGames(conf))

\* the number whose binary digits are the outcome vector, digit i for game i
RECURSIVE vectorValue(_)
vectorValue(v) ==
  IF v = <<>> THEN 0
  ELSE (IF Head(v) THEN 1 ELSE 0) + 2 * vectorValue(Tail(v))

\* C3: with 1 <= n <= MAX_SIMULATION unplayed games simulateConference
\* returns exactly 2^n scenarios with pairwise different gameResults, and the
\* scenario at list index m has the binary digits of m as its gameResults.
C3_EnumerationOrder ==
  (simReturned /\ numUnplayed >= 1 /\ numUnplayed <= MAX_SIMULATION) =>
    /\ Len(scenarios) = Pow2(numUnplayed)
    /\ \A m \in DOMAIN scenarios :
         /\ Len(scenarios[m].gameResults) = numUnplayed
         /\ vectorValue(scenarios[m].gameResults) = m - 1
    /\ \A a, b \in DOMAIN scenarios :
         a # b => scenarios[a].gameResults # scenarios[b].gameResults

\* C3 witness: the four scenarios of a conference with two unplayed games
C3_Witness ==
  /\ pc = "returned"
  /\ numUnplayed = 2
  /\ Len(scenarios) = 4

\* C4: with zero unplayed games simulateConference returns one scenario whose
\* finalStandings and topTwo are the standings after every tied group has
\* been ordered by the resolver.
C4_NoUnplayedResolved ==
  (simReturned /\ numUnplayed = 0) =>
    /\ Len(scenarios) = 1
    /\ \E t \in resolveTies(conf.name, conf.games, computeStandings(conf), 1) :
         /\ scenarios[1].finalStandings = t.resolved
         /\ scenarios[1].topTwo = topTwoOf(t.resolved)

\* wins and losses a team takes from the schedule and an outcome vector
winsUnder(team, gameResults) ==
  LET unplayed == getUnplayedGames(conf)
  IN confWinsOf(team, conf.games)
     + Cardinality({i \in DOMAIN unplayed :
          \/ (unplayed[i].winner = team /\ gameResults[i])
          \/ (unplayed[i].loser = team /\ ~gameResults[i])})

lossesUnder(team, gameResults) ==
  LET unplayed == getUnplayedGames(conf)
  IN confLossesOf(team, conf.games)
     + Cardinality({i \in DOMAIN unplayed :
          \/ (unplayed[i].loser = team /\ gameResults[i])
          \/ (unplayed[i].winner = team /\ ~gameResults[i])})

\* C5: in every scenario a team's confWins is its wins in the played games
\* plus the unplayed games it wins under gameResults (first slot on true,
\* second slot on false), confLosses symmetrically; the derived schedule
\* keeps the played games and is played throughout.
C5_RecordsFollowOutcomes ==
  \A m \in DOMAIN scenarios :
    /\ \A k \in DOMAIN scenarios[m].finalStandings :
         LET r == scenarios[m].finalStandings[k]
         IN /\ r.confWins = winsUnder(r.team, scenarios[m].gameResults)
            /\ r.confLosses = lossesUnder(r.team, scenarios[m].gameResults)
    /\ numUnplayed >= 1 =>
         LET derived == cloneWithResults(conf.games, getUnplayedGames(conf),
                                         m - 1, numUnplayed)
         IN /\ Len(derived) = Len(conf.games)
            /\ \A k \in DOMAIN derived :
                 /\ derived[k].played
                 /\ conf.games[k].played => derived[k] = conf.games[k]

\* C5 witness: a returned enumeration in which a team wins one unplayed game
\* from the first slot and another from the second slot
C5_Witness ==
  /\ pc = "returned"
  /\ numUnplayed = 2
  /\ Len(scenarios) = 4
  /\ \E t \in Range(conf.teams) :
       /\ getUnplayedGames(conf)[1].winner = t
       /\ getUnplayedGames(conf)[2].loser = t
       /\ \E m \in DOMAIN scenarios :
            /\ scenarios[m].gameResults = <<TRUE, FALSE>>
            /\ \E k \in DOMAIN scenarios[m].finalStandings :
                 /\ scenarios[m].finalStandings[k].team = t
                 /\ scenarios[m].finalStandings[k].confWins
                      = confWinsOf(t, conf.games) + 2

\* win fraction of a standings record: wins / games played
winFraction(r) == <<r.confWins, Max2(1, r.confWins + r.confLosses)>>

\* C6: in every scenario's finalStandings no team is ranked below a team
\* with a strictly lower win fraction.
C6_HigherFractionRanksAbove ==
  \A m \in DOMAIN scenarios :
    LET fs == scenarios[m].finalStandings
    IN \A i, j \in DOMAIN fs :
         i < j => ~PctGt(winFraction(fs[j]), winFraction(fs[i]))

\* the maximal sets of two or more teams that share a win fraction
tiedSets(fs) ==
  {S \in {{fs[k].team : k \in {x \in DOMAIN fs :
                                 PctEq(winFraction(fs[x]), winFraction(fs[i]))}} :
            i \in DOMAIN fs} : Cardinality(S) >= 2}

\* C7: every group handed to the resolver while a scenario is enumerated
\* consists of teams with one common win fraction, and every maximal set of
\* two or more teams sharing a win fraction is handed over exactly once.
C7_GroupsShareFraction ==
  (numUnplayed >= 1) =>
    \A m \in DOMAIN scenarios :
      LET fs == scenarios[m].finalStandings
          groups == handed[m]
          recOf(t) == fs[FirstIndex(fs, LAMBDA r : r.team = t)]
      IN /\ \A g \in DOMAIN groups :
              \A a, b \in Range(groups[g]) :
                PctEq(winFraction(recOf(a)), winFraction(recOf(b)))
         /\ \A S \in tiedSets(fs) :
              Cardinality({g \in DOMAIN groups : Range(groups[g]) = S}) = 1

----------------------------------------------------------------------------
(* Properties of the analyzer *)

\* the team that wins `game` (an unplayed game of conf) in scenario sc
scenarioWinner(sc, game) ==
  LET k == FirstIndex(getUnplayedGames(conf), LAMBDA g : g.id = game.id)
  IN IF sc.gameResults[k] THEN game.winner ELSE game.loser

\* indices (0-based) of the scenarios in which every listed game is won by
\* the listed winner
consistentScenarios(outcomes) ==
  {idx \in 0..(Len(scenarios) - 1) :
     \A i \in DOMAIN outcomes :
       scenarioWinner(scenarios[idx + 1], outcomes[i].game) = outcomes[i].winner}

inTopTwo(idx, team) == Includes(scenarios[idx + 1].topTwo, team)

\* C8: a returned sufficient condition is consistent with at least one
\* scenario and the team is in topTwo in every scenario consistent with
\* it; a returned blocking condition likewise with the team outside topTwo;
\* scenarioIndices is exactly that set of scenarios and the coverage count
\* is its size.
C8_ConditionsHold ==
  pc = "analyzed" =>
    /\ \A x \in DOMAIN requirements.sufficientConditions :
         LET c == requirements.sufficientConditions[x]
             M == consistentScenarios(c.outcomes)
         IN /\ M # {}
            /\ \A idx \in M : inTopTwo(idx, requirements.team)
            /\ c.scenarioIndices = M
            /\ c.covered = Cardinality(M)
    /\ \A x \in DOMAIN requirements.blockingConditions :
         LET c == requirements.blockingConditions[x]
             M == consistentScenarios(c.outcomes)
         IN /\ M # {}
            /\ \A idx \in M : ~inTopTwo(idx, requirements.team)
            /\ c.scenarioIndices = M
            /\ c.covered = Cardinality(M)

\* C8 witness: an analysis that returned a sufficient and a blocking
\* condition, each covering some but not all scenarios
C8_Witness ==
  /\ pc = "analyzed"
  /\ \E x \in DOMAIN requirements.sufficientConditions :
       requirements.sufficientConditions[x].covered < Len(scenarios)
  /\ \E x \in DOMAIN requirements.blockingConditions :
       requirements.blockingConditions[x].covered < Len(scenarios)

\* C9: with at least one unplayed game, the union of scenarioIndices over
\* the returned sufficient conditions is exactly the set of scenarios whose
\* topTwo contains the team.
C9_CoverageExact ==
  (pc = "analyzed" /\ numUnplayed >= 1) =>
    UNION {requirements.sufficientConditions[x].scenarioIndices :
             x \in DOMAIN requirements.sufficientConditions}
      = {idx \in 0..(Len(scenarios) - 1) : inTopTwo(idx, requirements.team)}

\* s without its i-th element
RemoveAt(s, i) == [k \in 1..(Len(s) - 1) |-> IF k < i THEN s[k] ELSE s[k + 1]]

\* C10: a returned condition with two or more outcomes is minimal: dropping
\* any one outcome leaves a set with which some scenario is consistent
\* that has the team outside (sufficient) or inside (blocking) the top two.
C10_ConditionsMinimal ==
  pc = "analyzed" =>
    /\ \A x \in DOMAIN requirements.sufficientConditions :
         LET c == requirements.sufficientConditions[x]
         IN Len(c.outcomes) >= 2 =>
              \A i \in DOMAIN c.outcomes :
                \E idx \in consistentScenarios(RemoveAt(c.outcomes, i)) :
                  ~inTopTwo(idx, requirements.team)
    /\ \A x \in DOMAIN requirements.blockingConditions :
         LET c == requirements.blockingConditions[x]
         IN Len(c.outcomes) >= 2 =>
              \A i \in DOMAIN c.outcomes :
                \E idx \in consistentScenarios(RemoveAt(c.outcomes, i)) :
                  inTopTwo(idx, requirements.team)

\* C10 witness: an analysis that returned a condition of two outcomes on
\* two different games, neither of which decides the matter alone
C10_Witness ==
  /\ pc = "analyzed"
  /\ \E x \in DOMAIN requirements.blockingConditions :
       LET c == requirements.blockingConditions[x]
       IN /\ Len(c.outcomes) = 2
          /\ c.outcomes[1].game.id # c.outcomes[2].game.id
          /\ c.covered = 1

\* the set of (game, required winner) pairs of a condition
outcomeSet(c) == {<<c.outcomes[i].game.id, c.outcomes[i].winner>> : i \in DOMAIN c.outcomes}

\* no condition of the collection has an outcome set strictly inside another's
noStrictSubset(collection) ==
  \A x, y \in DOMAIN collection :
    ~(outcomeSet(collection[x]) \subseteq outcomeSet(collection[y])
      /\ outcomeSet(collection[x]) # outcomeSet(collection[y]))

\* C11: in the sufficient and in the blocking collection returned by
\* analyzeTeamRequirements no condition's set of (game, required winner)
\* outcomes is a strict subset of another returned condition's outcome set.
C11_NoStrictSubset ==
  pc = "analyzed" =>
    /\ noStrictSubset(requirements.sufficientConditions)
    /\ noStrictSubset(requirements.blockingConditions)

\* C11 witness: an analysis of two unplayed games that returned two
\* sufficient conditions of one outcome each, so that every two-outcome
\* candidate containing one of them was removed
C11_Witness ==
  /\ pc = "analyzed"
  /\ numUnplayed = 2
  /\ Len(requirements.sufficientConditions) = 2
  /\ \A x \in DOMAIN requirements.sufficientConditions :
       Len(requirements.sufficientConditions[x].outcomes) = 1
  /\ requirements.top2Count = 3

----------------------------------------------------------------------------
(* Further properties of the resolver run *)

\* positions in rGames of the played games between two teams of the group
meetingsBetween(a, b) ==
  {i \in DOMAIN rGames : rGames[i].played /\ {rGames[i].winner, rGames[i].loser} = {a, b}}

\* C12: for every chain, a group of two teams with exactly one played game
\* against each other is returned with the winner of that game first, the
\* trace is exactly <<"A">> and the random fallback is not used.
C12_HeadToHeadDecides ==
  (rResult.returned /\ Len(rTeams) = 2
     /\ Cardinality(meetingsBetween(rTeams[1], rTeams[2])) = 1) =>
    LET g == rGames[CHOOSE i \in meetingsBetween(rTeams[1], rTeams[2]) : TRUE]
    IN /\ rResult.order = <<g.winner, g.loser>>
       /\ rResult.applied = <<"A">>
       /\ ~Includes(rResult.applied, "G")

\* C12 witness: a returned run for a non-named conference in which the team
\* handed over second won the only meeting and comes out first
C12_Witness ==
  /\ rResult.returned
  /\ rConf = "MW"
  /\ Len(rTeams) = 2
  /\ Cardinality(meetingsBetween(rTeams[1], rTeams[2])) = 1
  /\ rResult.order = <<rTeams[2], rTeams[1]>>
  /\ rResult.applied = <<"A">>

\* wins of team t in the played games among the teams of the group
groupWins(t) ==
  Cardinality({i \in DOMAIN rGames : rGames[i].played /\ rGames[i].winner = t
                                       /\ rGames[i].loser \in Range(rTeams)})

\* the group is three teams, each pair of which has played exactly once
completeRoundRobin ==
  /\ Len(rTeams) = 3
  /\ \A a, b \in Range(rTeams) : a # b => Cardinality(meetingsBetween(a, b)) = 1

\* the teams with strictly more round-robin wins than every other team
strictLeaders ==
  {t \in Range(rTeams) : \A u \in Range(rTeams) \ {t} : groupWins(t) > groupWins(u)}

\* C13: for every chain, a group of three teams with a complete round robin
\* and a strict win-count leader is returned with the leader first, placed
\* by Rule A, and the trace contains none of the codes B, C, D.
C13_RoundRobinLeaderFirst ==
  (rResult.returned /\ completeRoundRobin /\ strictLeaders # {}) =>
    /\ rResult.order[1] \in strictLeaders
    /\ Includes(rResult.applied, "A")
    /\ ~Includes(rResult.applied, "B")
    /\ ~Includes(rResult.applied, "C")
    /\ ~Includes(rResult.applied, "D")

\* Rule A offered to the remaining set: head-to-head for two teams, round
\* robin for three or more
ruleAResult ==
  IF Len(rState.remaining) = 2 THEN headToHead(rState.remaining, rGames)
  ELSE roundRobin_twoScenarios(rState.remaining, rGames)

\* C14: for the key "MW", in an iteration where Rule A gives no decision and
\* both the order-of-finish rule and the common-opponents rule would decide,
\* the decision taken is the order-of-finish one (code C).
C14_OrderOfFinishBeforeCommon ==
  (/\ rConf = "MW"
   /\ ~rResult.returned
   /\ Len(rState.remaining) > 1
   /\ ~Decided(ruleAResult)
   /\ Decided(winOrderOfFinish(rState.remaining, rGames, rStandings))
   /\ Decided(winPctCommonOpponents(rState.remaining, rGames))) =>
    LET wo == winOrderOfFinish(rState.remaining, rGames, rStandings)
    IN chainDecision(rConf, rState.remaining, rGames, rStandings)
         = [code |-> "C", team |-> wo.team, toTop |-> wo.winner]

----------------------------------------------------------------------------
(* Further properties of the enumerator and the analyzer *)

neverTopTwo ==
  \A i \in DOMAIN scenarios : ~Includes(scenarios[i].topTwo, requirements.team)

\* C16: analyzeTeamRequirements returns for every team of every returned
\* scenario list; for a team in the top two of no scenario of a non-empty
\* list it returns top2Count = 0, both collections empty and
\* totalScenarios > 0; after a refused enumeration (empty list) it returns
\* totalScenarios = 0, so the two outcomes differ in totalScenarios.
C16_AnalyzeOutcomes ==
  /\ (pc = "returned" /\ conf.teams # <<>>) =>
       \A team \in Range(conf.teams) :
         analyzeTeamRequirements(team, scenarios, getUnplayedGames(conf)).team = team
  /\ (pc = "analyzed") =>
       /\ requirements.totalScenarios = Len(scenarios)
       /\ (scenarios # <<>> /\ neverTopTwo) =>
            /\ requirements.top2Count = 0
            /\ requirements.sufficientConditions = <<>>
            /\ requirements.blockingConditions = <<>>
            /\ requirements.totalScenarios > 0
       /\ (numUnplayed > MAX_SIMULATION) =>
            /\ scenarios = <<>>
            /\ requirements.totalScenarios = 0
            /\ requirements.top2Count = 0

\* C16 witness: a team that misses the top two in each of the two scenarios
\* of a conference with one unplayed game
C16_Witness ==
  /\ pc = "analyzed"
  /\ numUnplayed = 1
  /\ Len(scenarios) = 2
  /\ neverTopTwo
  /\ requirements.top2Count = 0
  /\ requirements.totalScenarios = 2

\* the teams listed in a conference or named in any of its games
teamsOfConference(c) ==
  Range(c.teams) \cup {c.games[i].winner : i \in DOMAIN c.games}
                 \cup {c.games[i].loser : i \in DOMAIN c.games}

\* one record per team, carrying the numbers of played games won and lost
standingsExact(c) ==
  LET rows == computeStandings(c)
  IN /\ \A k \in DOMAIN rows : rows[k].team \in teamsOfConference(c)
     /\ \A t \in teamsOfConference(c) :
          Cardinality({k \in DOMAIN rows : rows[k].team = t}) = 1
     /\ \A k \in DOMAIN rows :
          /\ rows[k].confWins =
               Cardinality({i \in DOMAIN c.games :
                              c.games[i].played /\ c.games[i].winner = rows[k].team})
          /\ rows[k].confLosses =
               Cardinality({i \in DOMAIN c.games :
                              c.games[i].played /\ c.games[i].loser = rows[k].team})

\* the conference simulateConference hands to computeStandings for mask m
scenarioConference(m) ==
  [conf EXCEPT !.games =
     cloneWithResults(conf.games, getUnplayedGames(conf), m, numUnplayed)]

possibleScenarios ==
  IF numUnplayed = 0 THEN {simulateNoUnplayed(conf)}
  ELSE IF overLimit(numUnplayed) THEN {}
  ELSE UNION {{r.scenario : r \in simulateMask(conf, m)} :
                m \in 0..(Pow2(numUnplayed) - 1)}

\* every outcome of the list is the result of its game in scenario sc
outcomesHold(sc, outcomes) ==
  \A i \in DOMAIN outcomes :
    scenarioWinner(sc, outcomes[i].game) = outcomes[i].winner

\* C19: a reported condition holds whatever the random fallback chooses: in
\* every scenario that another run on the same conference can produce and
\* that is consistent with a condition reported as sufficient, the team is
\* in topTwo; consistent with a condition reported as blocking, the team is
\* outside topTwo.
C19_ConditionsHoldInEveryRun ==
  (pc = "analyzed" /\ numUnplayed >= 1) =>
    \A sc \in possibleScenarios :
      /\ \A x \in DOMAIN requirements.sufficientConditions :
           outcomesHold(sc, requirements.sufficientConditions[x].outcomes)
             => Includes(sc.topTwo, requirements.team)
      /\ \A x \in DOMAIN requirements.blockingConditions :
           outcomesHold(sc, requirements.blockingConditions[x].outcomes)
             => ~Includes(sc.topTwo, requirements.team)

\* the results of a second call of the resolver on the order the first call
\* returned, with the same conference, games and standings
secondCall == applyTieBreakers(rConf, rResult.order, rGames, rStandings)

firstCallByRules == rResult.returned /\ ~Includes(rResult.applied, "G")

\* C20: after a call in which no fallback fired, a second call on the
\* returned order returns that order unchanged and applies no rules: its
\* trace is empty.
C20_SecondCallEmptyTrace ==
  firstCallByRules =>
    \A r2 \in secondCall : r2.order = rResult.order /\ r2.applied = <<>>

\* C20, the order alone: after a call in which no fallback fired, a second
\* call on the returned order returns that order.
C20_SecondCallSameOrder ==
  firstCallByRules => \A r2 \in secondCall : r2.order = rResult.order

----------------------------------------------------------------------------
(* Rule codes, chain order and the fallback *)

\* an iteration of the resolver loop is about to run
inIteration == ~rResult.returned /\ Len(rState.remaining) > 1

\* the decision that iteration takes (team 0: no rule decides)
stepDecision == chainDecision(rConf, rState.remaining, rGames, rStandings)

\* C21: a rule code denotes the same rule for every conference: a decision
\* recorded as B is the common-opponents rule's, one recorded as C is the
\* order-of-finish rule's, one recorded as D is the combined-opponent rule's;
\* a decision of the combined-opponent rule is never recorded under C.
C21_CodesDenoteRules ==
  inIteration =>
    /\ (stepDecision.team # 0 /\ stepDecision.code = "B") =>
         winPctCommonOpponents(rState.remaining, rGames).team = stepDecision.team
    /\ (stepDecision.team # 0 /\ stepDecision.code = "C") =>
         winOrderOfFinish(rState.remaining, rGames, rStandings).team = stepDecision.team
    /\ (stepDecision.team # 0 /\ stepDecision.code = "D") =>
         combinedOpponentWinPct(rState.remaining, rGames).team = stepDecision.team
    /\ stepDecision.code \in {"A", "B", "C", "D", "G"}

\* the rules of the conference's chain in the order its function tries
\* them, each with the code it records and its result on the remaining set
rulesOffered ==
  LET rem == rState.remaining
      key == toLowerCase(rConf)
      h2h == headToHead(rem, rGames)
      a2 == IF Len(rem) = 2 THEN h2h ELSE roundRobin_twoScenarios(rem, rGames)
      a3 == IF Len(rem) = 2 THEN h2h ELSE roundRobin_threeScenarios(rem, rGames)
      b == [code |-> "B", result |-> winPctCommonOpponents(rem, rGames)]
      c == [code |-> "C", result |-> winOrderOfFinish(rem, rGames, rStandings)]
      co == combinedOpponentWinPct(rem, rGames)
  IN CASE key = "aac" ->
            <<[code |-> "A", result |-> a2], b, [code |-> "C", result |-> co]>>
       [] key \in {"acc", "sec"} ->
            <<[code |-> "A", result |-> a3], b, c, [code |-> "D", result |-> co]>>
       [] key \in {"big10", "big12"} ->
            <<[code |-> "A", result |-> a2], b, c, [code |-> "D", result |-> co]>>
       [] OTHER ->
            <<[code |-> "A", result |-> IF Len(rem) = 2 THEN h2h ELSE NoDecision],
              b, c, [code |-> "D", result |-> co]>>

\* position in the chain of the first rule that decides, 0 if none does
firstDeciding == FirstIndex(rulesOffered, LAMBDA r : Decided(r.result))

rankOf(t) == FirstIndex(rResult.order, LAMBDA u : u = t)

\* C24: in the ACC and SEC chains a team placed at the bottom is ranked
\* below every team that was still undecided when it was placed; the teams
\* placed at the bottom after it were undecided then (the teams placed at
\* the top and the last team left always precede the bottom list), so of
\* two teams of the bottom list the one placed later is ranked higher.
C24_BottomBelowUndecided ==
  (rResult.returned /\ toLowerCase(rConf) \in {"acc", "sec"}) =>
    \A i, j \in DOMAIN rState.bottom :
      (i < j) => rankOf(rState.bottom[j]) < rankOf(rState.bottom[i])

----------------------------------------------------------------------------
(* Properties of the single rules *)

\* conference wins of a team in the standings handed to the resolver
standingWins(t) ==
  rStandings[FirstIndex(rStandings, LAMBDA r : r.team = t)].confWins

\* the remaining teams share one win total
remainingTied ==
  \A t, u \in Range(rState.remaining) : standingWins(t) = standingWins(u)

\* the teams outside the remaining set that stand at win total h
levelGroup(h) ==
  {rStandings[k].team : k \in {m \in DOMAIN rStandings :
      rStandings[m].confWins = h /\ ~Includes(rState.remaining, rStandings[m].team)}}

winsAgainst(t, G) ==
  Cardinality({i \in DOMAIN rGames :
                 rGames[i].played /\ rGames[i].winner = t /\ rGames[i].loser \in G})

gamesAgainst(t, G) ==
  winsAgainst(t, G) +
  Cardinality({i \in DOMAIN rGames :
                 rGames[i].played /\ rGames[i].loser = t /\ rGames[i].winner \in G})

\* the remaining teams whose win fraction against G is strictly above that
\* of every other remaining team
levelLeaders(G) ==
  {t \in Range(rState.remaining) :
     \A u \in Range(rState.remaining) \ {t} :
       winsAgainst(t, G) * gamesAgainst(u, G) > winsAgainst(u, G) * gamesAgainst(t, G)}

\* level h discriminates: every remaining team played its group and exactly
\* one has the strict-maximum win fraction against it
levelDecides(h) ==
  /\ levelGroup(h) # {}
  /\ \A t \in Range(rState.remaining) : gamesAgainst(t, levelGroup(h)) > 0
  /\ Cardinality(levelLeaders(levelGroup(h))) = 1

\* the win totals above the tied group's at which the level discriminates
decidingLevelsAbove ==
  {h \in {rStandings[k].confWins : k \in DOMAIN rStandings} :
     h > standingWins(rState.remaining[1]) /\ levelDecides(h)}

\* C25: Rule C skips only the teams at the tied group's own win total: when
\* Rule C is reached (Rules A and B gave no decision) and a level above the
\* tied group discriminates, the highest such level decides the tie in
\* favour of its leader.
C25_HigherLevelDecides ==
  (/\ inIteration
   /\ remainingTied
   /\ ~Decided(rulesOffered[1].result)
   /\ ~Decided(rulesOffered[2].result)
   /\ decidingLevelsAbove # {}) =>
    \A h \in decidingLevelsAbove :
      (\A g \in decidingLevelsAbove : g <= h) =>
        winOrderOfFinish(rState.remaining, rGames, rStandings)
          = [team |-> The(levelLeaders(levelGroup(h))), winner |-> TRUE]

\* a played game in which w beat l
hasBeaten(w, l) ==
  \E i \in DOMAIN rGames :
    rGames[i].played /\ rGames[i].winner = w /\ rGames[i].loser = l

\* some pair of remaining teams has not played each other
somePairUnplayed ==
  \E t, u \in Range(rState.remaining) :
    t # u /\ ~hasBeaten(t, u) /\ ~hasBeaten(u, t)

\* C26: for three or more remaining teams of which some pair has not played
\* each other (whatever the number of games among them), Rule A places only
\* a team that defeated every other remaining member, at the top, or, in
\* ACC and SEC, a team that lost to every other remaining member, at the
\* bottom.
C26_IncompleteRoundRobin ==
  (/\ inIteration
   /\ Len(rState.remaining) >= 3
   /\ somePairUnplayed
   /\ Decided(rulesOffered[1].result)) =>
    \/ /\ stepDecision.toTop
       /\ \A u \in Range(rState.remaining) \ {stepDecision.team} :
            hasBeaten(stepDecision.team, u)
    \/ /\ toLowerCase(rConf) \in {"acc", "sec"}
       /\ ~stepDecision.toTop
       /\ \A u \in Range(rState.remaining) \ {stepDecision.team} :
            hasBeaten(u, stepDecision.team)

\* opponents a team has played, each counted once
opponentsPlayed(t) ==
  {u \in {rGames[i].winner : i \in DOMAIN rGames} \cup
          {rGames[i].loser : i \in DOMAIN rGames} :
     u # t /\ (hasBeaten(t, u) \/ hasBeaten(u, t))}

\* total wins of a team's opponents and total games those opponents played
opponentWinsTotal(t) ==
  Cardinality({<<i, o>> \in (DOMAIN rGames) \X opponentsPlayed(t) :
                 rGames[i].played /\ rGames[i].winner = o})

opponentGamesTotal(t) ==
  Cardinality({<<i, o>> \in (DOMAIN rGames) \X opponentsPlayed(t) :
                 rGames[i].played /\ (rGames[i].winner = o \/ rGames[i].loser = o)})

\* t's aggregate opponent win fraction is strictly above u's (0 when the
\* opponents played no game)
aggregateAbove(t, u) ==
  /\ opponentGamesTotal(t) > 0
  /\ \/ opponentGamesTotal(u) = 0 /\ opponentWinsTotal(t) > 0
     \/ /\ opponentGamesTotal(u) > 0
        /\ opponentWinsTotal(t) * opponentGamesTotal(u)
             > opponentWinsTotal(u) * opponentGamesTotal(t)

\* the remaining teams with the strict-maximum aggregate
aggregateLeaders ==
  {t \in Range(rState.remaining) :
     \A u \in Range(rState.remaining) \ {t} : aggregateAbove(t, u)}

----------------------------------------------------------------------------
(* Further properties of the analyzer and the enumerator *)

\* the candidates the search found before the reduction pass
candidatesFound(blocking) ==
  conditionsUpTo(scenarios, getUnplayedGames(conf), requirements.team,
                 Min2(numUnplayed, MaxCombinationSize), blocking)

\* candidate c is in the returned collection, or a candidate on a strict
\* subset of its (game, winner) outcomes exists, or a candidate covering
\* all of its scenarios and more exists
droppedForCause(c, found, returned) ==
  \/ \E x \in DOMAIN returned : outcomeSet(returned[x]) = outcomeSet(c)
  \/ \E y \in DOMAIN found :
       /\ outcomeSet(found[y]) \subseteq outcomeSet(c)
       /\ outcomeSet(found[y]) # outcomeSet(c)
  \/ \E y \in DOMAIN found :
       /\ c.scenarioIndices \subseteq found[y].scenarioIndices
       /\ c.scenarioIndices # found[y].scenarioIndices

\* C28: the reduction pass discards a candidate only as a duplicate or a
\* superset of a candidate on the same games with the same winners (or for
\* its scenarios being covered by a wider candidate), never because another
\* candidate constrains a different game between the same pair of teams.
C28_ReductionByGame ==
  (pc = "analyzed" /\ requirements.top2Count > 0) =>
    /\ \A y \in DOMAIN candidatesFound(FALSE) :
         droppedForCause(candidatesFound(FALSE)[y], candidatesFound(FALSE),
                         requirements.sufficientConditions)
    /\ \A y \in DOMAIN candidatesFound(TRUE) :
         droppedForCause(candidatesFound(TRUE)[y], candidatesFound(TRUE),
                         requirements.blockingConditions)

\* the sum of top2Count over the map analyzeAllTeamRequirements returns for
\* the teams of the conference
top2CountSum ==
  SetSum(Range(conf.teams),
         [t \in Range(conf.teams) |->
            analyzeAllTeamRequirements(scenarios, getUnplayedGames(conf),
                                       conf.teams)[t].top2Count])

\* C29: in every scenario returned for a conference of two or more teams,
\* finalStandings holds each conference team exactly once, topTwo is the
\* first two teams of finalStandings, two distinct teams, and the top2Count
\* values of all teams sum to twice the number of scenarios.
C29_TopTwoOfStandings ==
  (simReturned /\ Len(conf.teams) >= 2) =>
    /\ \A m \in DOMAIN scenarios :
         /\ Len(scenarios[m].finalStandings) = Len(conf.teams)
         /\ \A t \in Range(conf.teams) :
              Cardinality({k \in DOMAIN scenarios[m].finalStandings :
                             scenarios[m].finalStandings[k].team = t}) = 1
         /\ scenarios[m].topTwo = <<scenarios[m].finalStandings[1].team,
                                    scenarios[m].finalStandings[2].team>>
         /\ scenarios[m].topTwo[1] # scenarios[m].topTwo[2]
    /\ top2CountSum = 2 * Len(scenarios)

\* C29 witness: the four scenarios of a three-team conference, over which
\* the analysed team is in the top two in some but not all
C29_Witness ==
  /\ pc = "analyzed"
  /\ Len(conf.teams) = 3
  /\ Len(scenarios) = 4
  /\ requirements.top2Count \in 1..3
  /\ top2CountSum = 8

----------------------------------------------------------------------------
(* Dependence of the resolver on the order of its group *)

\* the results of the resolver on the same group listed in another order; the
\* calls in which the fallback fires are left out
otherOrderResults ==
  {r \in UNION {applyTieBreakers(rConf, p, rGames, rStandings) :
                  p \in permutationsOf(rTeams)} : ~Includes(r.applied, "G")}

\* C30: when the fallback does not fire, the returned order and the trace
\* depend on the set of tied teams, the games and the standings only: every
\* other listing of the same group gives the same order and the same trace.
C30_GroupOrderIrrelevant ==
  firstCallByRules =>
    \A r2 \in otherOrderResults :
      r2.order = rResult.order /\ r2.applied = rResult.applied

====
